---- MODULE Spec2Model ----
(***************************************************************************)
(* Model of bisect_perf.py: the bisection control loop (main), the commit  *)
(* evaluator (evaluate_commit) and its collaborators (checkout_commit,     *)
(* build_slang, build_sgl, run_perf_test), all on top of run_command.      *)
(*                                                                         *)
(* Every call of run_command is one step of the model.  The environment    *)
(* chooses the outcome of the call:                                        *)
(*   "ok"        the process was spawned and exited zero                   *)
(*   "nonzero"   the process was spawned and exited non-zero:              *)
(*               run_command raises CalledProcessError (line 87)           *)
(*   "openfault" open(log_file) at line 46 raised: nothing was spawned and *)
(*               an exception that is not CalledProcessError propagates    *)
(*   "iofault"   the process was spawned, and reading its output or        *)
(*               writing the transcript (lines 68-77) raised an exception  *)
(*               that is not CalledProcessError                            *)
(* The commit history is linear, 1..NumCommits, and git bisect is a        *)
(* reference bisection over it.                                            *)
(***************************************************************************)
EXTENDS Integers, Sequences, FiniteSets, TLC

\* ---------------------------------------------------------------- bounds
NumCommits == 4
MaxLines == 2
MaxCalls == 2

\* ------------------------------------------------------------- constants
\* render_time < 1.0 (lines 214, 285, 299), in thousandths of a second
Threshold == 1000

Commits == 1..NumCommits

\* Optional values (Python None): the empty sequence, or a one-element sequence.
None == << >>
Some(x) == << x >>

Outcomes == {"ok", "nonzero", "openfault", "iofault"}

\* run_command raises CalledProcessError (lines 83-87, re-raised at 96-99).
RaisesCalledProcessError(o) == o = "nonzero"
\* run_command lets another exception through (no handler for it, lines 39-99).
RaisesOther(o) == o \in {"openfault", "iofault"}
\* subprocess.Popen was reached (line 57).
Spawned(o) == o # "openfault"

\* ----------------------------------------------------------- probe output
\* The text "<ip>.<fp>" of a latency, fp being three decimal digits: 0.000,
\* 0.900 and 1.000, the threshold.
LatencyTexts ==
  { [ip |-> 0, fp |-> 0], [ip |-> 0, fp |-> 900], [ip |-> 1, fp |-> 0] }
\* float(match.group(1)) (line 166), in thousandths.
ToFloat(t) == t.ip * 1000 + t.fp

\* A line of the probe's output: whether it contains "renderBlobsToTexture"
\* (line 163) and, if the pattern of line 164 matches in it, the matched text.
Lines ==
  { [marker |-> FALSE, val |-> None], [marker |-> TRUE, val |-> None] }
  \cup { [marker |-> TRUE, val |-> Some(t)] : t \in LatencyTexts }
ProbeOutputs == UNION { [1..n -> Lines] : n \in 0..MaxLines }

\* ------------------------------------------------------- pure functions
\* Faulty variant: the scan gives up at the first line that holds the marker
RECURSIVE ScanFromFirstMarker(_, _)
ScanFromFirstMarker(output, i) ==
  IF i > Len(output) THEN None
  ELSE IF output[i].marker
       THEN IF output[i].val # None
            THEN Some(ToFloat(output[i].val[1]))
            ELSE None
       ELSE ScanFromFirstMarker(output, i + 1)

\* The scan of run_perf_test (lines 162-166) from line i on: the value of the
\* first line that contains the marker and matches the pattern, else None.
RECURSIVE ScanFrom(_, _)
ScanFrom(output, i) ==
  IF i > Len(output) THEN None
  ELSE IF output[i].marker /\ output[i].val # None
       THEN Some(ToFloat(output[i].val[1]))
       ELSE ScanFrom(output, i + 1)

\* run_perf_test's return value when run_command returned or raised
\* CalledProcessError (lines 154-172).
run_perf_test(o, output) ==
  IF RaisesCalledProcessError(o) THEN None ELSE ScanFrom(output, 1)

\* Faulty variant: build_slang reports a non-zero exit as failure
build_slang_faithful(o) ==
  IF RaisesCalledProcessError(o) THEN FALSE ELSE TRUE

\* build_slang's return value when run_command returned or raised
\* CalledProcessError (lines 117-128): True on both paths.
build_slang(o) ==
  IF RaisesCalledProcessError(o) THEN TRUE ELSE TRUE

\* Faulty variant: build_sgl reports success whatever the exit status
build_sgl_lenient(o) == TRUE

\* build_sgl's return value when run_command returned or raised
\* CalledProcessError (lines 133-149).
build_sgl(o) ==
  IF RaisesCalledProcessError(o) THEN FALSE ELSE TRUE

\* Faulty variant: checkout_commit goes on after a non-zero exit
checkout_commit_unchecked(o) == TRUE

\* checkout_commit's return value after a call of run_command that returned or
\* raised CalledProcessError (lines 104-112).
checkout_commit(o) ==
  IF RaisesCalledProcessError(o) THEN FALSE ELSE TRUE

\* Faulty variant: the threshold itself counts as good
IsGoodInclusive(render_time) == render_time <= Threshold

\* Faulty variant: the comparison is reversed
IsGoodReversed(render_time) == render_time >= Threshold

\* The verdict of evaluate_commit for a measured latency (line 214).
IsGood(render_time) == render_time < Threshold

\* The status line of the summary (lines 285, 299).
StatusOf(render_time) == IF render_time < Threshold THEN "good" ELSE "bad"

\* Faulty variant: a stage flag starts out true
NewResultsOptimistic(commit_hash) ==
  [commit |-> commit_hash,
   checkout_success |-> FALSE,
   slang_build_success |-> TRUE,
   sgl_build_success |-> FALSE,
   perf_test_success |-> FALSE,
   render_time |-> None]

\* The results dict evaluate_commit starts from (lines 176-183).
NewResults(commit_hash) ==
  [commit |-> commit_hash,
   checkout_success |-> FALSE,
   slang_build_success |-> FALSE,
   sgl_build_success |-> FALSE,
   perf_test_success |-> FALSE,
   render_time |-> None]

\* Faulty variant: the probe flag says the probe ran, not that it measured
ProbeResultsRan(res, render_time) ==
  [res EXCEPT !.perf_test_success = TRUE,
              !.render_time = render_time]

\* The results dict after the probe returned render_time (lines 206-207).
ProbeResults(res, render_time) ==
  [res EXCEPT !.perf_test_success = (render_time # None),
              !.render_time = render_time]

\* Faulty variant: the verdict is tested for truth: None counts as bad
ReportKindTruthy(verdict) ==
  IF verdict = Some(TRUE) THEN "good" ELSE "bad"

\* The report main issues for a verdict (lines 253-262).
ReportKind(verdict) ==
  IF verdict = None THEN "skip"
  ELSE IF verdict[1] THEN "good" ELSE "bad"

\* One entry of the summary file (lines 291-299).
SummaryEntry(result) ==
  [commit |-> result.commit,
   checkout |-> result.checkout_success,
   slang_build |-> result.slang_build_success,
   sgl_build |-> result.sgl_build_success,
   perf_test |-> result.perf_test_success,
   render_time |-> result.render_time,
   status |-> IF result.render_time # None
              THEN Some(StatusOf(result.render_time[1]))
              ELSE None]

\* ------------------------------------------------- the bisection tool
\* git bisect over the linear history: the commits still to test lie strictly
\* between the newest good and the oldest bad commit and are not skipped.
NoSession ==
  [session |-> "none", good |-> 0, bad |-> 0, skipped |-> {}, head |-> 0]

Candidates(b) ==
  { c \in Commits : b.good < c /\ c < b.bad /\ c \notin b.skipped }

\* Only skipped commits are left to test: the tool exits non-zero.
Stuck(b) ==
  /\ Candidates(b) = {}
  /\ \E c \in b.skipped : b.good < c /\ c < b.bad

\* The tool prints "<hash> is the first bad commit".
Found(b) ==
  /\ Candidates(b) = {}
  /\ ~ \E c \in b.skipped : b.good < c /\ c < b.bad

\* The tool's record after HEAD was reported good, bad or skip.
Marked(b, kind) ==
  CASE kind = "good" -> [b EXCEPT !.good = b.head]
    [] kind = "bad"  -> [b EXCEPT !.bad = b.head]
    [] kind = "skip" -> [b EXCEPT !.skipped = b.skipped \cup {b.head}]

\* The commits the tool may check out next.
NextHeads(b) == IF Candidates(b) = {} THEN {b.head} ELSE Candidates(b)

\* ---------------------------------------------------------------- state
VARIABLES
  pc,              \* the statement of main / evaluate_commit to run next
  argv,            \* sys.argv[1], sys.argv[2] (lines 225-226)
  good_hash,       \* line 232 (0: not assigned yet)
  bad_hash,        \* line 233 (0: not assigned yet)
  bisect,          \* the state of the external git bisect session
  current_commit,  \* line 247
  eval,            \* the results dict of the running evaluate_commit (176-183)
  is_good,         \* line 250: None, Some(TRUE) or Some(FALSE)
  results,         \* line 243: the run history
  issued,          \* the commands handed to run_command, in order (line 38)
  exits,           \* the outcome of each stage command of the current candidate
  probe_output,    \* what the probe printed (lines 68-70), until the report
  has_marker,      \* line 265, for the last good/bad report
  summary,         \* the summary file (lines 288-299), None until written
  last_out,        \* how the last call of run_command ended ("-": no call yet)
  faulted,         \* some call of run_command, or open() at line 289, raised
  returned_at,     \* the return statement evaluate_commit left by (0: none yet)
  \* run_command (lines 36-99), one invocation after the other
  rc_pc,           \* the statement of run_command to run next
  rc_call,         \* the invocation: its number, tag, process output, exit code
  files,           \* log_dir: the content of each transcript file written
  console,         \* the lines written to sys.stdout at line 73
  complete_output, \* line 44
  spawned,         \* how many times the invocation reached Popen (line 57)
  rc_result,       \* what the invocation returned or raised, None while running
  calls            \* the invocations so far: file name and lines read

main_vars ==
  << pc, argv, good_hash, bad_hash, bisect, current_commit, eval, is_good,
     results, issued, exits, probe_output, has_marker, summary, last_out,
     faulted, returned_at >>

run_vars ==
  << rc_pc, rc_call, files, console, complete_output, spawned, rc_result,
     calls >>

vars == << main_vars, run_vars >>

NoExits ==
  [checkout |-> "-", submodule |-> "-", build_slang |-> "-",
   build_sgl |-> "-", perf_test |-> "-"]

\* print(f"Running command: {cmd}") (line 38); commit is 0 for an untagged call.
Issue(cmd, commit) == Append(issued, [cmd |-> cmd, commit |-> commit])

\* The call of run_command ended with outcome o.
Ran(o) ==
  /\ last_out' = o
  /\ faulted' = (faulted \/ o # "ok")

\* No invocation of run_command yet.
NoCall ==
  [id |-> 0, tag |-> None, lines |-> << >>, exited |-> FALSE, code |-> 0]

InitRun ==
  /\ rc_pc = "idle"
  /\ rc_call = NoCall
  /\ files = << >>
  /\ console = << >>
  /\ complete_output = << >>
  /\ spawned = 0
  /\ rc_result = None
  /\ calls = << >>

Init ==
  /\ pc = "resolve_good"
  /\ argv \in { a \in [good : Commits, bad : Commits] : a.good + 1 < a.bad }
  /\ good_hash = 0
  /\ bad_hash = 0
  /\ bisect = NoSession
  /\ current_commit = 0
  /\ eval = NewResults(0)
  /\ is_good = None
  /\ results = << >>
  /\ issued = << >>
  /\ exits = NoExits
  /\ probe_output = << >>
  /\ has_marker = FALSE
  /\ summary = None
  /\ last_out = "-"
  /\ faulted = FALSE
  /\ returned_at = 0
  /\ InitRun

\* ------------------------------------------------------------ main: init
\* Faulty variant: the error is logged and main goes on
AfterResolveNoExit(o, next) == next

\* Where main goes after a call of run_command in lines 231-236.
AfterResolve(o, next) ==
  IF o = "ok" THEN next
  ELSE IF RaisesCalledProcessError(o) THEN "exit1" ELSE "crashed"

\* Where main goes after a call of run_command in lines 239-241 (no handler).
AfterStart(o, next) == IF o = "ok" THEN next ELSE "crashed"

\* Whether the external process ran and did its work.
Effective(o) == o \in {"ok", "iofault"}

\* line 232
ResolveGood ==
  /\ pc = "resolve_good"
  /\ \E o \in Outcomes :
       /\ issued' = Issue("git rev-parse good", 0)
       /\ Ran(o)
       /\ good_hash' = IF o = "ok" THEN argv.good ELSE good_hash
       /\ pc' = AfterResolve(o, "resolve_bad")
  /\ UNCHANGED << argv, bad_hash, bisect, current_commit, eval, is_good,
                  results, exits, probe_output, has_marker, summary >>
  /\ UNCHANGED << returned_at, run_vars >>

\* line 233
ResolveBad ==
  /\ pc = "resolve_bad"
  /\ \E o \in Outcomes :
       /\ issued' = Issue("git rev-parse bad", 0)
       /\ Ran(o)
       /\ bad_hash' = IF o = "ok" THEN argv.bad ELSE bad_hash
       /\ pc' = AfterResolve(o, "bisect_start")
  /\ UNCHANGED << argv, good_hash, bisect, current_commit, eval, is_good,
                  results, exits, probe_output, has_marker, summary >>
  /\ UNCHANGED << returned_at, run_vars >>

\* line 239
BisectStart ==
  /\ pc = "bisect_start"
  /\ \E o \in Outcomes :
       /\ issued' = Issue("git bisect start", 0)
       /\ Ran(o)
       /\ bisect' = IF Effective(o)
                    THEN [NoSession EXCEPT !.session = "open"]
                    ELSE bisect
       /\ pc' = AfterStart(o, "bisect_good")
  /\ UNCHANGED << argv, good_hash, bad_hash, current_commit, eval, is_good,
                  results, exits, probe_output, has_marker, summary >>
  /\ UNCHANGED << returned_at, run_vars >>

\* line 240
BisectGood ==
  /\ pc = "bisect_good"
  /\ \E o \in Outcomes :
       /\ issued' = Issue("git bisect good <good_hash>", 0)
       /\ Ran(o)
       /\ bisect' = IF Effective(o)
                    THEN [bisect EXCEPT !.good = good_hash]
                    ELSE bisect
       /\ pc' = AfterStart(o, "bisect_bad")
  /\ UNCHANGED << argv, good_hash, bad_hash, current_commit, eval, is_good,
                  results, exits, probe_output, has_marker, summary >>
  /\ UNCHANGED << returned_at, run_vars >>

\* line 241: with both ends known the tool checks out the first candidate
BisectBad ==
  /\ pc = "bisect_bad"
  /\ \E o \in Outcomes :
       /\ issued' = Issue("git bisect bad <bad_hash>", 0)
       /\ Ran(o)
       /\ \E h \in NextHeads([bisect EXCEPT !.bad = bad_hash]) :
            bisect' = IF Effective(o)
                      THEN [bisect EXCEPT !.bad = bad_hash, !.head = h]
                      ELSE bisect
       /\ pc' = AfterStart(o, "rev_parse_head")
  /\ UNCHANGED << argv, good_hash, bad_hash, current_commit, eval, is_good,
                  results, exits, probe_output, has_marker, summary >>
  /\ UNCHANGED << returned_at, run_vars >>

\* --------------------------------------------------------- main: iterate
\* Where main goes after a call of run_command inside the try block (lines
\* 244-267): an exception is caught at line 269 and the finally block runs.
\* Faulty variant: the reset is not in a finally block: an exception ends main
AfterIterateNoFinally(o, next) == IF o = "ok" THEN next ELSE "crashed"

AfterIterate(o, next) == IF o = "ok" THEN next ELSE "reset"

\* line 247; on success evaluate_commit is entered (lines 250, 176-183).
\* Any exception is caught at line 269 and the finally block follows.
RevParseHead ==
  /\ pc = "rev_parse_head"
  /\ \E o \in Outcomes :
       /\ issued' = Issue("git rev-parse HEAD", 0)
       /\ Ran(o)
       /\ IF o = "ok"
          THEN /\ current_commit' = bisect.head
               /\ eval' = NewResults(bisect.head)
               /\ returned_at' = 0
               /\ pc' = "checkout"
          ELSE /\ UNCHANGED << current_commit, eval, returned_at >>
               /\ pc' = AfterIterate(o, "checkout")
  /\ exits' = NoExits
  /\ UNCHANGED << argv, good_hash, bad_hash, bisect, is_good, results,
                  probe_output, has_marker, summary >>
  /\ UNCHANGED run_vars

\* Faulty variant: an Inconclusive candidate leaves no record
ReturnDroppingInconclusive(verdict, res, line) ==
  /\ eval' = res
  /\ is_good' = verdict
  /\ results' = IF verdict = None THEN results ELSE Append(results, res)
  /\ returned_at' = line
  /\ pc' = "report"

\* evaluate_commit returns (verdict, res) and main appends res (lines 250-251).
\* line is the return statement taken (190, 196, 202, 211, 214 or 218).
Return(verdict, res, line) ==
  /\ eval' = res
  /\ is_good' = verdict
  /\ results' = Append(results, res)
  /\ returned_at' = line
  /\ pc' = "report"

\* evaluate_commit goes on to its next stage with res as its results dict.
Continue(res, next) ==
  /\ eval' = res
  /\ pc' = next
  /\ UNCHANGED << is_good, results, returned_at >>

\* line 105: git checkout.  A non-zero exit makes checkout_commit return False
\* (lines 110-112, 187-190); another exception is caught at line 216.
Checkout ==
  /\ pc = "checkout"
  /\ \E o \in Outcomes :
       /\ issued' = Issue("git checkout", current_commit)
       /\ Ran(o)
       /\ exits' = [exits EXCEPT !.checkout = o]
       /\ IF RaisesOther(o)
          THEN Return(None, eval, 218)
          ELSE IF checkout_commit(o)
               THEN Continue(eval, "submodule")
               ELSE Return(None, [eval EXCEPT !.checkout_success = FALSE], 190)
  /\ UNCHANGED << argv, good_hash, bad_hash, bisect, current_commit,
                  probe_output, has_marker, summary >>
  /\ UNCHANGED run_vars

\* line 107: git submodule update, then lines 109, 187-190
Submodule ==
  /\ pc = "submodule"
  /\ \E o \in Outcomes :
       /\ issued' = Issue("git submodule update", current_commit)
       /\ Ran(o)
       /\ exits' = [exits EXCEPT !.submodule = o]
       /\ IF RaisesOther(o)
          THEN Return(None, eval, 218)
          ELSE IF checkout_commit(o)
               THEN Continue([eval EXCEPT !.checkout_success = TRUE],
                             "build_slang")
               ELSE Return(None, [eval EXCEPT !.checkout_success = FALSE], 190)
  /\ UNCHANGED << argv, good_hash, bad_hash, bisect, current_commit,
                  probe_output, has_marker, summary >>
  /\ UNCHANGED run_vars

\* line 121, then lines 193-196
BuildSlang ==
  /\ pc = "build_slang"
  /\ \E o \in Outcomes :
       /\ issued' = Issue("build_slang", current_commit)
       /\ Ran(o)
       /\ exits' = [exits EXCEPT !.build_slang = o]
       /\ IF RaisesOther(o)
          THEN Return(None, eval, 218)
          ELSE LET res == [eval EXCEPT !.slang_build_success = build_slang(o)]
               IN  IF res.slang_build_success
                   THEN Continue(res, "build_sgl")
                   ELSE Return(None, res, 196)
  /\ UNCHANGED << argv, good_hash, bad_hash, bisect, current_commit,
                  probe_output, has_marker, summary >>
  /\ UNCHANGED run_vars

\* line 142, then lines 199-202
BuildSgl ==
  /\ pc = "build_sgl"
  /\ \E o \in Outcomes :
       /\ issued' = Issue("build_sgl", current_commit)
       /\ Ran(o)
       /\ exits' = [exits EXCEPT !.build_sgl = o]
       /\ IF RaisesOther(o)
          THEN Return(None, eval, 218)
          ELSE LET res == [eval EXCEPT !.sgl_build_success = build_sgl(o)]
               IN  IF res.sgl_build_success
                   THEN Continue(res, "perf_test")
                   ELSE Return(None, res, 202)
  /\ UNCHANGED << argv, good_hash, bad_hash, bisect, current_commit,
                  probe_output, has_marker, summary >>
  /\ UNCHANGED run_vars

\* line 155, then lines 205-214
PerfTest ==
  /\ pc = "perf_test"
  /\ \E o \in Outcomes, output \in ProbeOutputs :
       /\ o \in {"ok", "nonzero"} \/ output = << >>
       /\ issued' = Issue("perf_test", current_commit)
       /\ Ran(o)
       /\ exits' = [exits EXCEPT !.perf_test = o]
       /\ probe_output' = output
       /\ IF RaisesOther(o)
          THEN Return(None, eval, 218)
          ELSE LET render_time == run_perf_test(o, output)
                   res == ProbeResults(eval, render_time)
               IN  IF render_time = None
                   THEN Return(None, res, 211)
                   ELSE Return(Some(IsGood(render_time[1])), res, 214)
  /\ UNCHANGED << argv, good_hash, bad_hash, bisect, current_commit,
                  has_marker, summary >>
  /\ UNCHANGED run_vars

\* The tool's record after a report of kind on HEAD under outcome o, checking
\* out h next.  A non-zero exit is the tool's own when only skipped commits are
\* left (the mark is recorded) and the environment's otherwise (nothing is).
Reported(b, kind, o, h) ==
  IF Effective(o) THEN [Marked(b, kind) EXCEPT !.head = h]
  ELSE IF RaisesCalledProcessError(o) /\ Stuck(Marked(b, kind))
       THEN Marked(b, kind)
       ELSE b

\* The outcomes a report of kind can have: it cannot exit zero when the tool
\* is left with skipped commits only.
ReportOutcomes(b, kind) ==
  IF Stuck(Marked(b, kind)) THEN Outcomes \ {"ok"} ELSE Outcomes

\* lines 253-256: the response to skip is not inspected.  With the report
\* the candidate is done with: exits and returned_at start afresh.
ReportSkip ==
  /\ pc = "report"
  /\ ReportKind(is_good) = "skip"
  /\ \E o \in ReportOutcomes(bisect, "skip") :
     \E h \in NextHeads(Marked(bisect, "skip")) :
       /\ issued' = Issue("git bisect skip", 0)
       /\ Ran(o)
       /\ bisect' = Reported(bisect, "skip", o, h)
       /\ pc' = AfterIterate(o, "rev_parse_head")
  /\ probe_output' = << >>
  /\ exits' = NoExits
  /\ returned_at' = 0
  /\ UNCHANGED << argv, good_hash, bad_hash, current_commit, eval, is_good,
                  results, has_marker, summary >>
  /\ UNCHANGED run_vars

\* Faulty variant: the loop ends after any report that returned
BisectCompleteEager(o, b) == o = "ok"

\* lines 265-267: the report returned its output and the output holds
\* "is the first bad commit"; b is the session after the report.
BisectComplete(o, b) == o = "ok" /\ Found(b)

\* Lines 259-267 for a report of kind: the loop ends when the response holds
\* "is the first bad commit".
ReportVerdict(kind) ==
  \E o \in ReportOutcomes(bisect, kind) :
  \E h \in NextHeads(Marked(bisect, kind)) :
    /\ issued' = Issue("git bisect " \o kind, 0)
    /\ Ran(o)
    /\ bisect' = Reported(bisect, kind, o, h)
    /\ has_marker' = IF o = "ok" THEN Found(Marked(bisect, kind))
                     ELSE has_marker
    /\ pc' = IF BisectComplete(o, Marked(bisect, kind))
             THEN "reset"
             ELSE AfterIterate(o, "rev_parse_head")

\* line 260
ReportGood ==
  /\ pc = "report"
  /\ ReportKind(is_good) = "good"
  /\ ReportVerdict("good")
  /\ probe_output' = << >>
  /\ exits' = NoExits
  /\ returned_at' = 0
  /\ UNCHANGED << argv, good_hash, bad_hash, current_commit, eval, is_good,
                  results, summary >>
  /\ UNCHANGED run_vars

\* line 262
ReportBad ==
  /\ pc = "report"
  /\ ReportKind(is_good) = "bad"
  /\ ReportVerdict("bad")
  /\ probe_output' = << >>
  /\ exits' = NoExits
  /\ returned_at' = 0
  /\ UNCHANGED << argv, good_hash, bad_hash, current_commit, eval, is_good,
                  results, summary >>
  /\ UNCHANGED run_vars

\* -------------------------------------------------------- main: finalize
\* line 273: an exception of run_command leaves the finally block, and main
Reset ==
  /\ pc = "reset"
  /\ \E o \in Outcomes :
       /\ issued' = Issue("git bisect reset", 0)
       /\ Ran(o)
       /\ bisect' = IF Effective(o)
                    THEN [bisect EXCEPT !.session = "closed"]
                    ELSE bisect
       /\ pc' = IF o = "ok" THEN "summary" ELSE "crashed"
  /\ UNCHANGED << argv, good_hash, bad_hash, current_commit, eval, is_good,
                  results, exits, probe_output, has_marker, summary >>
  /\ UNCHANGED << returned_at, run_vars >>

\* lines 276-299; open(summary_file, 'w') at line 289 may raise
WriteSummary ==
  /\ pc = "summary"
  /\ \E o \in {"ok", "openfault"} :
       /\ summary' = IF o = "ok"
                     THEN Some([i \in 1..Len(results) |->
                                  SummaryEntry(results[i])])
                     ELSE summary
       /\ pc' = IF o = "ok" THEN "done" ELSE "crashed"
  /\ UNCHANGED << argv, good_hash, bad_hash, bisect, current_commit, eval,
                  is_good, results, issued, exits, probe_output, has_marker >>
  /\ faulted' = (faulted \/ pc' = "crashed")
  /\ UNCHANGED << last_out, returned_at, run_vars >>

Next ==
  \/ ResolveGood
  \/ ResolveBad
  \/ BisectStart
  \/ BisectGood
  \/ BisectBad
  \/ RevParseHead
  \/ Checkout
  \/ Submodule
  \/ BuildSlang
  \/ BuildSgl
  \/ PerfTest
  \/ ReportSkip
  \/ ReportGood
  \/ ReportBad
  \/ Reset
  \/ WriteSummary

Spec == Init /\ [][Next]_vars

\* ============================================================== claims
Terminated == pc \in {"done", "crashed", "exit1"}

\* How many times cmd was handed to run_command.
CountCmd(cmd) == Cardinality({ i \in DOMAIN issued : issued[i].cmd = cmd })

\* The iterate phase was entered: its first statement (line 247) was run.
EnteredIterate == CountCmd("git rev-parse HEAD") > 0

\* The reports handed to run_command, in order.
IsReport(c) ==
  c.cmd \in {"git bisect skip", "git bisect good", "git bisect bad"}
Reports == SelectSeq(issued, IsReport)

StageNames == {"checkout", "submodule", "build_slang", "build_sgl", "perf_test"}
Faults == {"nonzero", "openfault", "iofault"}

\* C1: in every execution that enters the iterate phase, 'git bisect reset' is
\* handed to run_command exactly once: never twice, and once by the time main
\* has ended, whether the loop stopped on the completion marker or on a fault.
C1_FinalizeExactlyOnce ==
  /\ CountCmd("git bisect reset") <= 1
  /\ (EnteredIterate /\ (Terminated \/ pc = "summary"))
       => CountCmd("git bisect reset") = 1
  /\ pc \in {"rev_parse_head", "checkout", "submodule", "build_slang",
             "build_sgl", "perf_test", "report", "reset"}
       => CountCmd("git bisect reset") = 0

\* C1 witness: the loop was left on a fault after an evaluation (no completion
\* marker was seen), and main ended with the reset issued once.
C1_Witness ==
  /\ pc = "done"
  /\ ~ has_marker
  /\ Len(results) >= 1
  /\ CountCmd("git bisect reset") = 1

\* C2 (as claimed): once 'git bisect start' has succeeded, main never ends
\* with the bisection session still open.
C2_SessionNeverLeftOpen ==
  (Terminated /\ CountCmd("git bisect good <good_hash>") > 0)
    => bisect.session = "closed"

\* C3 (as claimed): when evaluate_commit has returned and a stage command of
\* the candidate exited non-zero or hit a runtime fault, the verdict is
\* Inconclusive and some stage flag of the result is false.
C3_FaultYieldsInconclusive ==
  (pc = "report" /\ \E st \in StageNames : exits[st] \in Faults)
    => /\ is_good = None
       /\ ~ ( /\ eval.checkout_success
              /\ eval.slang_build_success
              /\ eval.sgl_build_success
              /\ eval.perf_test_success )

\* C4: in the result evaluate_commit returns, and in every element of the run
\* history, render_time is present if and only if perf_test_success is true.
C4_LatencyIffProbeSuccess ==
  /\ \A i \in DOMAIN results :
       (results[i].render_time # None) <=> results[i].perf_test_success
  /\ pc = "report" =>
       ((eval.render_time # None) <=> eval.perf_test_success)

\* C4 witness: the history holds a result with a latency and a result whose
\* probe ran and measured nothing.
C4_Witness ==
  \E i, j \in DOMAIN results :
    /\ results[i].perf_test_success
    /\ results[i].render_time # None
    /\ results[j].sgl_build_success
    /\ ~ results[j].perf_test_success
    /\ results[j].render_time = None

\* C5: in every result a failed stage leaves all later flags false:
\* perf_test_success => sgl_build_success => slang_build_success =>
\* checkout_success, and a failed checkout leaves the three later flags false
\* and render_time absent.
C5_ShortCircuit ==
  \A i \in DOMAIN results :
    LET r == results[i] IN
      /\ r.perf_test_success => r.sgl_build_success
      /\ r.sgl_build_success => r.slang_build_success
      /\ r.slang_build_success => r.checkout_success
      /\ ~ r.checkout_success =>
           /\ ~ r.slang_build_success
           /\ ~ r.sgl_build_success
           /\ ~ r.perf_test_success
           /\ r.render_time = None

\* C5 witness: the checkout of the candidate just evaluated exited non-zero
\* and its result is in the history.
C5_Witness ==
  /\ pc = "report"
  /\ exits.checkout = "nonzero"
  /\ Len(results) >= 1
  /\ ~ results[Len(results)].checkout_success

\* C6: a measured latency t makes the verdict Good when t < 1.0 and Bad when
\* t >= 1.0 (1.0 itself is Bad), never Inconclusive; the summary's status of
\* the candidate, and the report issued for it, are that classification.
C6_Classification ==
  /\ (pc = "report" /\ eval.render_time # None) =>
       LET t == eval.render_time[1] IN
         /\ t < 1000 => is_good = Some(TRUE)
         /\ t >= 1000 => is_good = Some(FALSE)
  /\ \A i \in 1..Len(Reports) :
       results[i].render_time # None =>
         LET t == results[i].render_time[1] IN
           /\ t < 1000 => Reports[i].cmd = "git bisect good"
           /\ t >= 1000 => Reports[i].cmd = "git bisect bad"
  /\ summary # None =>
       \A i \in DOMAIN summary[1] :
         summary[1][i].render_time # None =>
           LET t == summary[1][i].render_time[1] IN
             /\ t < 1000 => summary[1][i].status = Some("good")
             /\ t >= 1000 => summary[1][i].status = Some("bad")

\* C6 witness: a candidate measured at exactly 1.0 was reported bad and the
\* summary says bad.
C6_Witness ==
  /\ summary # None
  /\ \E i \in DOMAIN summary[1] :
       /\ summary[1][i].render_time = Some(1000)
       /\ summary[1][i].status = Some("bad")
       /\ i <= Len(Reports)
       /\ Reports[i].cmd = "git bisect bad"

\* C7: every evaluated candidate gets exactly one report before the next
\* candidate is queried, and the report matches the verdict: skip iff
\* Inconclusive, good iff Good, bad iff Bad; no candidate is reported twice.
C7_OneMatchingReport ==
  /\ Len(Reports) <= Len(results)
  /\ Len(results) <= Len(Reports) + 1
  /\ pc = "report" => Len(results) = Len(Reports) + 1
  /\ pc \in {"rev_parse_head", "checkout", "submodule", "build_slang",
             "build_sgl", "perf_test"} => Len(Reports) = Len(results)
  /\ (Len(Reports) = Len(results) /\ Len(results) > 0) =>
       LET last == Reports[Len(Reports)].cmd IN
         /\ last = "git bisect skip" <=> is_good = None
         /\ last = "git bisect good" <=> is_good = Some(TRUE)
         /\ last = "git bisect bad" <=> is_good = Some(FALSE)
  /\ \A i \in 1..Len(Reports) :
       results[i].render_time = None => Reports[i].cmd = "git bisect skip"
  /\ \A i, j \in DOMAIN results :
       i # j => results[i].commit # results[j].commit

\* C7 witness: a first candidate was skipped, a second one evaluated and
\* reported bad.
C7_Witness ==
  /\ Len(Reports) = 2
  /\ Len(results) = 2
  /\ Reports[1].cmd = "git bisect skip"
  /\ Reports[2].cmd = "git bisect bad"

Exited(o) == o \in {"ok", "nonzero"}

\* C9 (as claimed): slang_build_success is true in every result whose
\* checkout succeeded and whose primary build was attempted (its process was
\* started); build_sgl returns false exactly when its command exits non-zero,
\* and the candidate is then Inconclusive.
C9_PrimaryBuildFlagAlwaysTrue ==
  pc = "report" =>
    /\ (eval.checkout_success /\ exits.build_slang \in {"ok", "nonzero", "iofault"})
         => eval.slang_build_success
    /\ Exited(exits.build_sgl) =>
         (~ eval.sgl_build_success <=> exits.build_sgl = "nonzero")
    /\ exits.build_sgl = "nonzero" => is_good = None

\* C9 (amended): build_slang returns true whether its command exits zero or
\* non-zero: then slang_build_success is true and the pipeline goes on to the
\* SGL build.  A runtime fault of run_command during the primary build (not a
\* non-zero exit) ends the pipeline Inconclusive with slang_build_success
\* false.  build_sgl returns false exactly when its command exits non-zero,
\* and the candidate is then Inconclusive without the probe being run.
C9_BuildDriversAsymmetric ==
  /\ (pc \in {"build_sgl", "perf_test", "report"} /\ Exited(exits.build_slang))
       => /\ eval.checkout_success
          /\ eval.slang_build_success
          /\ pc = "report" => exits.build_sgl # "-"
  /\ (pc = "report" /\ exits.build_slang \in {"openfault", "iofault"})
       => /\ eval.checkout_success
          /\ ~ eval.slang_build_success
          /\ is_good = None
          /\ exits.build_sgl = "-"
  /\ (pc \in {"perf_test", "report"} /\ Exited(exits.build_sgl))
       => (~ eval.sgl_build_success <=> exits.build_sgl = "nonzero")
  /\ (pc = "report" /\ exits.build_sgl = "nonzero")
       => /\ is_good = None
          /\ exits.perf_test = "-"

\* C9 witness: both build commands of a candidate exited non-zero; the Slang
\* flag is true, the SGL flag false, the verdict Inconclusive.
C9_Witness ==
  /\ pc = "report"
  /\ exits.build_slang = "nonzero"
  /\ exits.build_sgl = "nonzero"
  /\ eval.slang_build_success
  /\ ~ eval.sgl_build_success
  /\ is_good = None

\* The lines of the probe's output in which the pattern matches.
MatchingLines == { i \in DOMAIN probe_output : probe_output[i].val # None }

\* C10: when the probe exits non-zero, or exits zero with no matching line,
\* run_perf_test returns None; when it exits zero with a matching line it
\* returns the value of the first matching line; whenever it returns None
\* evaluate_commit returns Inconclusive with perf_test_success false.
C10_ProbeAbsentOrFirstMatch ==
  (pc = "report" /\ Exited(exits.perf_test)) =>
    /\ (exits.perf_test = "nonzero" \/ MatchingLines = {})
         => eval.render_time = None
    /\ (exits.perf_test = "ok" /\ MatchingLines # {})
         => LET first == CHOOSE i \in MatchingLines :
                           \A j \in MatchingLines : i <= j
                text == probe_output[first].val[1]
            IN  eval.render_time = Some(text.ip * 1000 + text.fp)
    /\ eval.render_time = None
         => /\ is_good = None
            /\ ~ eval.perf_test_success

\* C10 witness: the probe exited zero, its first line holds the marker without
\* matching the pattern, its second line matches, and the second line's value
\* is the result.
C10_Witness ==
  /\ pc = "report"
  /\ exits.perf_test = "ok"
  /\ Len(probe_output) = 2
  /\ probe_output[1].marker
  /\ probe_output[1].val = None
  /\ probe_output[2].val = Some([ip |-> 0, fp |-> 900])
  /\ eval.render_time = Some(900)

\* The history A, B, C: goodRef is A, badRef is C, B the one commit between.
ScenarioABC == argv.bad = argv.good + 2

AllStagesSucceeded(r) ==
  /\ r.checkout_success
  /\ r.slang_build_success
  /\ r.sgl_build_success
  /\ r.perf_test_success

\* C11: on the history A, B, C with no failing command and B measured at 0.9,
\* the loop evaluates B only, reports it good, gets the completion marker with
\* C as first bad commit, leaves the loop and finalizes; the history holds
\* exactly B's result.
C11_EndToEnd ==
  (ScenarioABC /\ ~ faulted) =>
    /\ Len(results) <= 1
    /\ \A i \in DOMAIN results : results[i].commit = argv.good + 1
    /\ (Len(results) = 1 /\ results[1].render_time = Some(900)) =>
         /\ AllStagesSucceeded(results[1])
         /\ \/ pc = "report" /\ Reports = << >>
            \/ /\ pc \in {"reset", "summary", "done"}
               /\ Len(Reports) = 1
               /\ Reports[1].cmd = "git bisect good"
               /\ has_marker
               /\ bisect.good = argv.good + 1
               /\ bisect.bad = argv.bad
               /\ Found(bisect)
         /\ pc \in {"summary", "done"} =>
              /\ CountCmd("git bisect reset") = 1
              /\ bisect.session = "closed"
         /\ pc = "done" =>
              /\ summary # None
              /\ Len(summary[1]) = 1
              /\ summary[1][1].commit = argv.good + 1
              /\ summary[1][1].status = Some("good")

\* C11 witness: the scenario ran to its end.
C11_Witness ==
  /\ ScenarioABC
  /\ ~ faulted
  /\ pc = "done"
  /\ Len(results) = 1
  /\ results[1].render_time = Some(900)
  /\ has_marker

ResolveCmds == {"git rev-parse good", "git rev-parse bad"}

\* C12: when 'git rev-parse' of goodRef or badRef exits non-zero, main ends
\* with sys.exit(1) and nothing but rev-parse was ever issued: no bisect
\* start/good/bad/skip/reset, no checkout, no build.
C12_NoMutationBeforeResolve ==
  /\ (Len(issued) >= 1 /\ issued[Len(issued)].cmd \in ResolveCmds
        /\ last_out = "nonzero") => pc = "exit1"
  /\ pc = "exit1" =>
       /\ last_out = "nonzero"
       /\ \A i \in DOMAIN issued : issued[i].cmd \in ResolveCmds
       /\ bisect = NoSession
       /\ results = << >>
  /\ (\E i \in DOMAIN issued : issued[i].cmd \notin ResolveCmds) =>
       /\ good_hash = argv.good
       /\ bad_hash = argv.bad

\* C12 witness: goodRef resolved, badRef did not, main exited.
C12_Witness ==
  /\ pc = "exit1"
  /\ Len(issued) = 2
  /\ good_hash = argv.good
  /\ bad_hash = 0

LastIssued == issued[Len(issued)]

LoopLeft == pc \in {"reset", "summary", "done", "crashed"}

\* C13: directly after a report that returned, the loop has stopped iff the
\* report was good/bad and its response held the marker; without the marker
\* the loop is at the next candidate; after a skip the loop is always at
\* the next candidate.  The marker is only ever seen on leaving the loop.
C13_StopExactlyOnMarker ==
  /\ (Len(issued) >= 1 /\ IsReport(LastIssued) /\ last_out = "ok") =>
       /\ (pc = "reset") <=> has_marker
       /\ ~ has_marker => pc = "rev_parse_head"
       /\ LastIssued.cmd = "git bisect skip" =>
            pc = "rev_parse_head" /\ ~ has_marker
  /\ has_marker =>
       /\ LoopLeft
       /\ Reports # << >>
       /\ Reports[Len(Reports)].cmd \in {"git bisect good", "git bisect bad"}

\* C13 witness: the marker came after an earlier report that lacked it.
C13_Witness ==
  /\ pc = "reset"
  /\ has_marker
  /\ last_out = "ok"
  /\ Len(Reports) >= 2
  /\ \E i \in DOMAIN Reports : Reports[i].cmd = "git bisect skip"

\* main ended in the finally block because open(summary_file) raised
\* (line 289) after a reset that returned.
SummaryOpenFailed ==
  /\ pc = "crashed"
  /\ Len(issued) >= 1
  /\ LastIssued.cmd = "git bisect reset"
  /\ last_out = "ok"

\* C14: once finalize has run to the end of main, the summary is written and
\* holds one entry per element of the run history, in evaluation order,
\* whether or not 'git bisect reset' succeeded (a summary file that cannot
\* be opened set aside).
C14_SummaryWhateverReset ==
  (Terminated /\ CountCmd("git bisect reset") >= 1 /\ ~ SummaryOpenFailed) =>
    summary = Some([i \in 1..Len(results) |-> SummaryEntry(results[i])])

\* C17 as stated: every failure of the two commands of checkout_commit is
\* turned into its boolean result, so evaluate_commit always leaves through
\* the 'not checkout_commit(...)' branch (return at line 190).
C17_NoFailureEscapes ==
  (pc = "report" /\ (exits.checkout \in Faults \/ exits.submodule \in Faults))
    => returned_at = 190

\* C17, amended: checkout_commit is true only if both commands exited zero;
\* a non-zero exit of the switch returns False without the synchronization
\* being attempted, a non-zero exit of the synchronization returns False;
\* any other exception of run_command leaves checkout_commit and is caught
\* by evaluate_commit (line 216), which returns Inconclusive.
C17_CheckoutBoolean ==
  /\ exits.checkout # "-" =>
       (eval.checkout_success <=>
          (exits.checkout = "ok" /\ exits.submodule = "ok"))
  /\ exits.checkout = "nonzero" =>
       exits.submodule = "-" /\ returned_at = 190 /\ is_good = None
  /\ (exits.checkout = "ok" /\ exits.submodule = "nonzero") =>
       returned_at = 190 /\ is_good = None
  /\ RaisesOther(exits.checkout) =>
       exits.submodule = "-" /\ returned_at = 218 /\ is_good = None
  /\ (exits.checkout = "ok" /\ RaisesOther(exits.submodule)) =>
       returned_at = 218 /\ is_good = None

\* C17 witness: the switch succeeded, the synchronization exited non-zero.
C17_Witness ==
  /\ pc = "report"
  /\ exits.checkout = "ok"
  /\ exits.submodule = "nonzero"
  /\ returned_at = 190
  /\ ~ eval.checkout_success

StageOrder ==
  << "git checkout", "git submodule update", "build_slang", "build_sgl",
     "perf_test" >>

StageKeys ==
  << "checkout", "submodule", "build_slang", "build_sgl", "perf_test" >>

\* The commands handed to run_command for candidate c, in order.
StageCmds(c) ==
  LET OfCommit(e) == e.commit = c
      sel == SelectSeq(issued, OfCommit)
  IN  [i \in 1..Len(sel) |-> sel[i].cmd]

IsPrefix(s, t) ==
  /\ Len(s) <= Len(t)
  /\ \A i \in 1..Len(s) : s[i] = t[i]

\* The stage whose command ended with outcome o was reported as failed (or
\* raised past evaluate_commit's stages): build_slang reports a non-zero
\* exit as success.
StageFailed(key, o) ==
  /\ o \in Faults
  /\ ~ (key = "build_slang" /\ RaisesCalledProcessError(o) /\ build_slang(o))

\* C19: the commands of each candidate are a prefix of checkout, submodule
\* update, primary build, secondary build, probe (fixed order, each at most
\* once), and after a stage that failed no later stage's command is issued.
C19_StageOrder ==
  /\ \A c \in Commits : IsPrefix(StageCmds(c), StageOrder)
  /\ \A i \in 1..5 : \A j \in 1..5 :
       (i < j /\ StageFailed(StageKeys[i], exits[StageKeys[i]])) =>
         exits[StageKeys[j]] = "-"

\* C19 witness: the secondary build failed after four commands; no probe.
C19_Witness ==
  /\ pc = "report"
  /\ exits.build_sgl = "nonzero"
  /\ StageCmds(current_commit) = SubSeq(StageOrder, 1, 4)

\* evaluate_commit is between its first command and its return.
InEvaluation == pc \in {"submodule", "build_slang", "build_sgl", "perf_test"}

\* The calls of evaluate_commit that have returned: every call hands
\* 'git checkout' to run_command first (lines 187, 105).
Completed ==
  CountCmd("git checkout") - (IF InEvaluation THEN 1 ELSE 0)

\* The candidates evaluate_commit was called with, in order.
IsCheckout(c) == c.cmd = "git checkout"
Evaluated == SelectSeq(issued, IsCheckout)

\* C20: the run history has one record per completed evaluate_commit call,
\* in evaluation order, the record of a candidate is there before its
\* report is issued, and a step either leaves the history alone or appends
\* one record to it.
C20_HistoryAppendOnly ==
  /\ [](/\ Len(results) = Completed
        /\ \A i \in DOMAIN results : results[i].commit = Evaluated[i].commit
        /\ Len(Reports) <= Len(results)
        /\ pc = "report" => Len(results) = Len(Reports) + 1)
  /\ [][\/ results' = results
        \/ /\ Len(results') = Len(results) + 1
           /\ SubSeq(results', 1, Len(results)) = results]_vars

\* C20 witness: a second record was appended after an Inconclusive one.
C20_Witness ==
  /\ pc = "report"
  /\ Len(results) = 2
  /\ results[1].render_time = None
  /\ Len(Reports) = 1

\* Every external command returns: whatever statement main is at, it is
\* eventually carried out.  The tool's part of the assumption is in its
\* record: each report that returns takes HEAD out of Candidates.
FairSpec == Init /\ [][Next]_vars /\ WF_vars(Next)

\* C18: main eventually ends, and when the iterate phase was entered it was
\* left and 'git bisect reset' of the finally block was run, once.
C18_Termination ==
  <>(Terminated /\ (EnteredIterate => CountCmd("git bisect reset") = 1))

\* C18 witness: main ended after the loop went round once for every revision
\* between the endpoints of the widest range: no smaller cap stopped it.
C18_Witness ==
  /\ pc = "done"
  /\ argv.good = 1
  /\ argv.bad = NumCommits
  /\ Len(results) = NumCommits - 2
  /\ CountCmd("git bisect reset") = 1

\* ------------------------------------------------------------ run_command
\* run_command statement by statement (lines 36-99), for up to MaxCalls
\* invocations in one run of the script, next to the process it starts.

ExitCodes == {0, 1, 2}
Phases == {"checkout", "perf_test"}

\* phase and commit of a call: None for the calls of main (lines 232-273),
\* a pair for the calls of the stages (lines 105-158).
Tags == {None} \cup { Some([commit |-> 1, phase |-> p]) : p \in Phases }

\* line 41: timestamp is set once, at line 23, so the name depends on the tag
\* alone, and every untagged call names the same file.
LogFile(tag) ==
  IF tag = None THEN [commit |-> 0, phase |-> "command"] ELSE tag[1]

\* What a transcript or the console holds: "out" is line k of the output of
\* invocation id; "header", "error", "completed" are lines 49-54, 86 and 92.
Entry(kind, id, k) == [kind |-> kind, id |-> id, k |-> k]

IsOutput(e) == e.kind = "out"
OutputLinesOf(content) == SelectSeq(content, IsOutput)

\* lines 46-54: open(log_file, 'w') truncates; a tagged call writes a header.
Opened(call) ==
  IF call.tag # None THEN << Entry("header", call.id, 0) >> ELSE << >>

\* line 76
Logged(content, line) == Append(content, line)

\* Faulty variant: the error carries no output
ResultNoOutput(code, output) ==
  IF code # 0
  THEN [kind |-> "CalledProcessError", returncode |-> code, output |-> << >>]
  ELSE [kind |-> "return", returncode |-> 0, output |-> output]

\* lines 84-95: CalledProcessError(returncode, cmd, output) or the output.
Result(code, output) ==
  IF code # 0
  THEN [kind |-> "CalledProcessError", returncode |-> code, output |-> output]
  ELSE [kind |-> "return", returncode |-> 0, output |-> output]

\* an exception other than CalledProcessError: not caught at line 96
OtherError == [kind |-> "OtherError", returncode |-> 0, output |-> << >>]

\* lines 86 and 92
Footer(call) ==
  IF call.code # 0 THEN Entry("error", call.id, call.code)
  ELSE Entry("completed", call.id, 0)

\* The invocation ends with res; calls keeps its file name, the lines it
\* read and how it ended.
Finish(res) ==
  /\ rc_result' = Some(res)
  /\ rc_pc' = "idle"
  /\ calls' = Append(calls, [id |-> rc_call.id, tag |-> rc_call.tag,
                             file |-> LogFile(rc_call.tag),
                             lines |-> complete_output,
                             kind |-> res.kind])

\* A tagged call is made once per (commit, phase): evaluate_commit runs each
\* stage once and the tool hands out each candidate once.
TagFree(tag) == tag = None \/ \A i \in DOMAIN calls : calls[i].tag # tag

\* line 36-38: run_command is entered
RcCall ==
  /\ rc_pc = "idle"
  /\ Len(calls) < MaxCalls
  /\ \E tag \in Tags :
       /\ TagFree(tag)
       /\ rc_call' = [NoCall EXCEPT !.id = Len(calls) + 1, !.tag = tag]
  /\ rc_pc' = "open"
  /\ complete_output' = << >>
  /\ spawned' = 0
  /\ rc_result' = None
  /\ UNCHANGED << files, console, calls, main_vars >>

\* lines 46-54
RcOpen ==
  /\ rc_pc = "open"
  /\ LET name == LogFile(rc_call.tag)
     IN  files' = [f \in DOMAIN files \cup {name} |->
                     IF f = name THEN Opened(rc_call) ELSE files[f]]
  /\ rc_pc' = "spawn"
  /\ UNCHANGED << rc_call, console, complete_output, spawned, rc_result,
                  calls, main_vars >>

\* lines 57-65
RcSpawn ==
  /\ rc_pc = "spawn"
  /\ spawned' = spawned + 1
  /\ rc_pc' = "read"
  /\ UNCHANGED << rc_call, files, console, complete_output, rc_result,
                  calls, main_vars >>

\* The process writes a line to its stdout or stderr.
ProcEmit ==
  /\ rc_pc = "read"
  /\ ~ rc_call.exited
  /\ Len(rc_call.lines) < MaxLines
  /\ rc_call' = [rc_call EXCEPT
                   !.lines = Append(@, Entry("out", rc_call.id, Len(@) + 1))]
  /\ UNCHANGED << rc_pc, files, console, complete_output, spawned, rc_result,
                  calls, main_vars >>

\* The process exits.
ProcExit ==
  /\ rc_pc = "read"
  /\ ~ rc_call.exited
  /\ \E code \in ExitCodes :
       rc_call' = [rc_call EXCEPT !.exited = TRUE, !.code = code]
  /\ UNCHANGED << rc_pc, files, console, complete_output, spawned, rc_result,
                  calls, main_vars >>

\* lines 68-78: one round of 'for line in process.stdout'
RcReadLine ==
  /\ rc_pc = "read"
  /\ Len(complete_output) < Len(rc_call.lines)
  /\ LET line == rc_call.lines[Len(complete_output) + 1]
         name == LogFile(rc_call.tag)
     IN  /\ complete_output' = Append(complete_output, line)
         /\ console' = Append(console, line)
         /\ files' = [files EXCEPT ![name] = Logged(@, line)]
  /\ UNCHANGED << rc_pc, rc_call, spawned, rc_result, calls, main_vars >>

\* lines 81-95: end of the output, process.wait(), the return code
RcFinish ==
  /\ rc_pc = "read"
  /\ rc_call.exited
  /\ Len(complete_output) = Len(rc_call.lines)
  /\ files' = [files EXCEPT ![LogFile(rc_call.tag)] = Append(@, Footer(rc_call))]
  /\ Finish(Result(rc_call.code, complete_output))
  /\ UNCHANGED << rc_call, console, complete_output, spawned, main_vars >>

\* open() at line 46 or a read at line 68 raises: nothing in run_command
\* catches it.
RcFault ==
  /\ rc_pc \in {"open", "read"}
  /\ Finish(OtherError)
  /\ UNCHANGED << rc_call, files, console, complete_output, spawned,
                  main_vars >>

NextRun ==
  \/ RcCall
  \/ RcOpen
  \/ RcSpawn
  \/ ProcEmit
  \/ ProcExit
  \/ RcReadLine
  \/ RcFinish
  \/ RcFault

\* run_command does not read main's state: one value of argv is enough.
InitSpecRun == Init /\ argv = [good |-> 1, bad |-> NumCommits]

SpecRun == InitSpecRun /\ [][NextRun]_vars

\* The invocation has ended and its result is still at hand.
Ended == rc_pc = "idle" /\ rc_result # None

\* C15: an invocation reaches Popen at most once; when the process exited
\* zero run_command returns everything the process wrote; when it exited
\* non-zero run_command raises CalledProcessError with that exit code and
\* all of the output, and the transcript already holds every output line.
C15_SpawnOnceReturnOrRaise ==
  /\ spawned <= 1
  /\ (Ended /\ rc_result[1].kind # "OtherError") =>
       /\ spawned = 1
       /\ rc_call.exited
       /\ rc_result[1].output = rc_call.lines
       /\ (rc_call.code = 0) <=> (rc_result[1].kind = "return")
       /\ rc_call.code # 0 =>
            /\ rc_result[1].kind = "CalledProcessError"
            /\ rc_result[1].returncode = rc_call.code
            /\ OutputLinesOf(files[LogFile(rc_call.tag)]) = rc_call.lines

\* C15 witness: the process wrote two lines and exited with status 2.
C15_Witness ==
  /\ Ended
  /\ rc_result[1].kind = "CalledProcessError"
  /\ rc_result[1].returncode = 2
  /\ Len(rc_result[1].output) = 2

\* The concatenation of what the invocations so far read, in order.
RECURSIVE AllRead(_)
AllRead(n) ==
  IF n = 0 THEN << >> ELSE AllRead(n - 1) \o calls[n].lines

\* C16: the transcript of every invocation that returned or raised
\* CalledProcessError holds exactly that invocation's output lines, in
\* order, however many invocations followed; the console holds the lines
\* of all invocations in the order read.
C16_TranscriptPerInvocation ==
  /\ \A i \in DOMAIN calls :
       calls[i].kind # "OtherError" =>
         OutputLinesOf(files[calls[i].file]) = calls[i].lines
  /\ rc_pc = "idle" => console = AllRead(Len(calls))

====
